---- MODULE Spec2Model ----
(***************************************************************************)
(* A model of the EEG analysis web application (app.py): the band power    *)
(* integrator, the per-file and the aggregate pipelines, and the three     *)
(* request handlers GET /, POST /upload and POST /update acting on the     *)
(* uploads directory, the static directory and the wall clock.             *)
(*                                                                         *)
(* Numbers.  Frequencies are counted in half hertz, so that the band edge  *)
(* 0.5 Hz is the integer 1.  Power spectral densities are even integers,   *)
(* so that the halving of the trapezoidal rule is exact.  Stored samples   *)
(* are whole volts; the pipelines multiply them by 10^6 as the code does.  *)
(* A mean is kept as the pair <<sum, count>>.                              *)
(*                                                                         *)
(* Requests are handled one at a time, each handler in one step from the   *)
(* request to its response.                                                *)
(***************************************************************************)
EXTENDS Integers, Sequences, FiniteSets, TLC

VARIABLES
    uploads,    \* the uploads directory: file name -> stored content
    static,     \* the static directory: image name -> the plot it holds
    clock,      \* int(time.time()), the wall clock in whole seconds
    req,        \* per client: the last request it made and the response to it
    received,   \* the number of requests the server has received
    returned,   \* the stored paths that rendered upload pages have handed to clients
    band,       \* the band power integrator's inputs and its result
    agg         \* the averaging step's inputs and its result

vars == <<uploads, static, clock, req, received, returned, band, agg>>

(***************************************************************************)
(* Bounds of the model.                                                    *)
(***************************************************************************)
MaxFiles == 2       \* files in one request
MaxRequests == 4    \* requests the server receives
MaxClock == 1       \* seconds the wall clock advances
MaxBins == 3        \* frequency bins of a PSD handed to band_power
MaxFreq == 4        \* largest frequency of such a PSD
MaxPsd == 1         \* largest PSD value, in units of 2
MaxBatch == 2       \* recordings averaged together
MaxSamples == 2     \* samples of a recording handed to the averaging step

(***************************************************************************)
(* Program constants.                                                      *)
(***************************************************************************)
UPLOAD_FOLDER == "uploads"
STATIC_FOLDER == "static"
MaxPlotChannels == 6
MicroVolts == 1000000
DefaultTimescale == 1

(***************************************************************************)
(* Sequence helpers standing for numpy's array operations.                 *)
(***************************************************************************)
RECURSIVE SumSeq(_)
SumSeq(s) ==
    IF s = <<>> THEN 0 ELSE Head(s) + SumSeq(Tail(s))

RECURSIVE SelectMask(_, _)
\* a[idx] for a boolean mask idx: the elements of a where idx is TRUE, in order
SelectMask(a, idx) ==
    IF a = <<>> THEN <<>>
    ELSE IF Head(idx) THEN <<Head(a)>> \o SelectMask(Tail(a), Tail(idx))
         ELSE SelectMask(Tail(a), Tail(idx))

\* np.trapz(y, x): sum of (x[i+1] - x[i]) * (y[i] + y[i+1]) / 2
trapz(y, x) ==
    SumSeq([i \in 1..(IF Len(y) = 0 THEN 0 ELSE Len(y) - 1) |->
              (x[i + 1] - x[i]) * (y[i] + y[i + 1])]) \div 2

\* band_power with the upper edge excluded (freqs < fmax)
band_power_exclusive(psd, freqs, fmin, fmax) ==
    LET idx == [i \in 1..Len(freqs) |-> freqs[i] >= fmin /\ freqs[i] < fmax]
    IN  trapz(SelectMask(psd, idx), SelectMask(freqs, idx))

band_power(psd, freqs, fmin, fmax) ==
    LET idx == [i \in 1..Len(freqs) |-> freqs[i] >= fmin /\ freqs[i] <= fmax]
    IN  trapz(SelectMask(psd, idx), SelectMask(freqs, idx))

(***************************************************************************)
(* Recordings.  A decoded recording (mne Raw) has its channel names, its   *)
(* sampling frequency and a channels x samples matrix.  Recording(n, len,  *)
(* seed, fs) is the recording of n channels and len samples whose sample   *)
(* at channel c and position t is (3*seed + c + 2*t) % 4 volts.            *)
(***************************************************************************)
Recording(n, len, seed, fs) ==
    [ ch_names |-> [c \in 1..n |-> c],
      sfreq    |-> fs,
      data     |-> [c \in 1..n |-> [t \in 1..len |-> (3 * seed + c + 2 * t) % 4]] ]

\* a[:k] of a sequence
Prefix(a, k) ==
    SubSeq(a, 1, IF Len(a) < k THEN Len(a) ELSE k)

\* raw.get_data(picks=raw.ch_names[:6]) * 1e6: the first six channels, in microvolts
get_data(raw) ==
    LET picks == Prefix(raw.ch_names, MaxPlotChannels)
    IN  [i \in 1..Len(picks) |->
            [t \in 1..Len(raw.data[picks[i]]) |-> raw.data[picks[i]][t] * MicroVolts]]

\* d.shape[1] of a channels x samples matrix with at least one channel
NumSamples(d) ==
    Len(d[1])

\* min of a non-empty set of numbers
MinOf(S) ==
    CHOOSE m \in S : \A x \in S : m <= x

\* min_len = min(d.shape[1] for d in all_data)
\* avg_data = np.mean([d[:, :min_len] for d in all_data], axis=0)
\* np.mean stacks the truncated matrices, which raises ValueError when their
\* channel counts differ; each mean is the pair <<sum, count>>.
average(all_data) ==
    LET min_len == MinOf({NumSamples(all_data[k]) : k \in 1..Len(all_data)})
        cut == [k \in 1..Len(all_data) |->
                  [c \in 1..Len(all_data[k]) |-> Prefix(all_data[k][c], min_len)]]
        n == Len(cut)
    IN  IF \E k \in 1..n : Len(cut[k]) # Len(cut[1])
        THEN [error |-> "ValueError", data |-> <<>>]
        ELSE [error |-> "",
              data  |-> [c \in 1..Len(cut[1]) |->
                          [t \in 1..min_len |->
                             <<SumSeq([k \in 1..n |-> cut[k][c][t]]), n>>]]]

(***************************************************************************)
(* The per-file pipeline.                                                  *)
(***************************************************************************)
\* the empty value: an absent file, an absent image name (None)
NoFile == ""
None == <<>>
NoPlot == [by |-> "", title |-> "", xlim |-> 0]

\* the names under which files are stored in the uploads directory
FileNames == {"a.edf", "b.edf"}

\* a stored file holds one of two EDF recordings, "eegA" or "eegB", or bytes that
\* are no EDF recording, "corrupt"
DecodableContents == {"eegA", "eegB"}

Decodable(content) ==
    content \in DecodableContents

\* mne.io.read_raw_edf(filepath, preload=True) followed by raw.filter(1, 40):
\* the filtered recording a decodable content holds
read_raw_edf(content) ==
    IF content = "eegA" THEN Recording(7, 3, 0, 64) ELSE Recording(6, 2, 1, 256)

\* os.path.join(folder, name) and os.path.basename(path)
join(folder, name) ==
    <<folder, name>>

basename(path) ==
    path[2]

\* the content stored at a path of the uploads directory, NoFile when there is none
ReadFile(disk, path) ==
    IF path[1] = UPLOAD_FOLDER /\ path[2] \in DOMAIN disk THEN disk[path[2]] ELSE NoFile

\* data.mean(axis=0): the mean over the channels at each position, as <<sum, count>>
mean_axis0(data) ==
    [t \in 1..NumSamples(data) |->
        <<SumSeq([c \in 1..Len(data) |-> data[c][t]]), Len(data)>>]

\* scipy.signal.welch(x, sfreq, nperseg=2048) is a library routine; it is taken as
\* a fixed function of the signal and the rate.  The frequency grid (in half hertz)
\* holds the band edges up to the Nyquist frequency, and each PSD value is a
\* positive even number determined by the signal.
WelchGrid == <<0, 1, 8, 16, 26, 60, 80>>

welch(x, sfreq) ==
    LET keep  == [i \in 1..Len(WelchGrid) |-> WelchGrid[i] <= sfreq]
        freqs == SelectMask(WelchGrid, keep)
        level == SumSeq([t \in 1..Len(x) |-> x[t][1]]) \div MicroVolts
    IN  [freqs |-> freqs,
         psd   |-> [k \in 1..Len(freqs) |-> 2 * (1 + ((level + k) % 3))]]

\* the five fixed bands, edges in half hertz: 0.5-4, 4-8, 8-13, 13-30, 30-40 Hz
BandEdges == <<<<1, 8>>, <<8, 16>>, <<16, 26>>, <<26, 60>>, <<60, 80>>>>

bands(psd, freqs) ==
    [b \in 1..Len(BandEdges) |-> band_power(psd, freqs, BandEdges[b][1], BandEdges[b][2])]

\* round(raw.times[-1], 2), in hundredths of a second, halves rounded to even
duration(raw) ==
    LET num == 100 * (Len(raw.data[1]) - 1)
        q == num \div raw.sfreq
        r == num % raw.sfreq
    IN  IF 2 * r < raw.sfreq THEN q
        ELSE IF 2 * r > raw.sfreq THEN q + 1
        ELSE IF q % 2 = 0 THEN q ELSE q + 1

\* what process_file derives from a recording alone: len(raw.ch_names), the rate,
\* the rounded duration, and the five band powers of the PSD of the mean signal
measure(raw) ==
    LET w == welch(mean_axis0(get_data(raw)), raw.sfreq)
    IN  [channels |-> Len(raw.ch_names),
         sfreq    |-> raw.sfreq,
         duration |-> duration(raw),
         bands    |-> bands(w.psd, w.freqs)]

\* measure, tabulated over the decodable contents
Measured ==
    [content \in DecodableContents |-> measure(read_raw_edf(content))]

time_plot(idx) ==
    <<"time_", idx, ".png">>

psd_plot(idx) ==
    <<"psd_", idx, ".png">>

\* static with the plot saved under an image name (plt.savefig)
savefig(stat, name, plot) ==
    [n \in DOMAIN stat |-> IF n = name THEN plot ELSE stat[n]]

\* the two plt.savefig calls of process_file: the stacked time plot, titled with
\* the file's name and clipped to the display limit, then the PSD plot
save_plots(stat, filepath, timescale, idx, client) ==
    savefig(savefig(stat, time_plot(idx),
                    [by |-> client, title |-> basename(filepath), xlim |-> timescale]),
            psd_plot(idx),
            [by |-> client, title |-> "Power Spectral Density", xlim |-> 0])

\* the dictionary process_file returns
summary(filepath, idx, m) ==
    [filename  |-> basename(filepath),
     channels  |-> m.channels,
     sfreq     |-> m.sfreq,
     duration  |-> m.duration,
     time_plot |-> time_plot(idx),
     psd_plot  |-> psd_plot(idx),
     bands     |-> m.bands]

\* process_file whose band powers are taken over the displayed window only, so
\* that they grow with the display limit
process_file_windowed(filepath, timescale, idx, client, disk, stat) ==
    LET content == ReadFile(disk, filepath)
    IN  IF ~Decodable(content)
        THEN [error |-> "decode", static |-> stat, summary |-> <<>>, seen |-> content]
        ELSE [error   |-> "",
              static  |-> save_plots(stat, filepath, timescale, idx, client),
              summary |-> [summary(filepath, idx, Measured[content]) EXCEPT
                             !.bands = [b \in 1..Len(BandEdges) |-> @[b] * timescale]],
              seen    |-> content]

\* process_file whose image names carry the client as well as the index
process_file_keyed(filepath, timescale, idx, client, disk, stat) ==
    LET content == ReadFile(disk, filepath)
    IN  IF ~Decodable(content)
        THEN [error |-> "decode", static |-> stat, summary |-> <<>>, seen |-> content]
        ELSE [error   |-> "",
              static  |-> save_plots(stat, filepath, timescale, idx, client),
              summary |-> [summary(filepath, idx, Measured[content]) EXCEPT
                             !.time_plot = <<"time_", client, idx, ".png">>,
                             !.psd_plot = <<"psd_", client, idx, ".png">>],
              seen    |-> content]

\* process_file(filepath, timescale, idx) on the directories disk and stat, called for
\* client: the decode error or the summary, the static directory after the two
\* images are written, and the content that was decoded.
process_file(filepath, timescale, idx, client, disk, stat) ==
    LET content == ReadFile(disk, filepath)
    IN  IF ~Decodable(content)
        THEN [error |-> "decode", static |-> stat, summary |-> <<>>, seen |-> content]
        ELSE [error   |-> "",
              static  |-> save_plots(stat, filepath, timescale, idx, client),
              summary |-> summary(filepath, idx, Measured[content]),
              seen    |-> content]

(***************************************************************************)
(* The aggregate pipeline.                                                 *)
(***************************************************************************)
average_plot(now) ==
    <<"average_", now, ".png">>

\* the loop of process_average and its averaging step, tabulated over the
\* sequences of decodable contents a batch of file paths can hold
Averaged ==
    [b \in UNION {[1..n -> DecodableContents] : n \in 1..MaxFiles} |->
        average([k \in 1..Len(b) |-> get_data(read_raw_edf(b[k]))])]

\* process_average(filepaths, timescale) at wall-clock second now
process_average(filepaths, timescale, client, disk, stat, now) ==
    IF \E k \in 1..Len(filepaths) : ~Decodable(ReadFile(disk, filepaths[k]))
    THEN [error |-> "decode", static |-> stat, avg_filename |-> None]
    ELSE
      LET avg == Averaged[[k \in 1..Len(filepaths) |-> ReadFile(disk, filepaths[k])]]
      IN  IF avg.error # ""
          THEN [error |-> avg.error, static |-> stat, avg_filename |-> None]
          ELSE [error |-> "",
                static |-> savefig(stat, average_plot(now),
                                   [by |-> client, title |-> "Grand Average EEG Signal",
                                    xlim |-> timescale]),
                avg_filename |-> average_plot(now)]

(***************************************************************************)
(* The request handlers.  A handler runs from the request to its response  *)
(* in one step.  Each client keeps the last response it was sent: the      *)
(* request it answers, what the handler passed to the template, and what   *)
(* the handler wrote to the two directories on the way (saved, wrote).     *)
(***************************************************************************)
\* the integrator and the averaging step are not run on their own here
BandIdle == [psd |-> <<>>, freqs |-> <<>>, fmin |-> 0, fmax |-> 0, pc |-> "off", power |-> 0]

AggIdle == [batch |-> <<>>, pc |-> "off", out |-> [error |-> "", data |-> <<>>]]

Clients == {"c1", "c2"}

ImageNames ==
    {time_plot(i) : i \in 0..(MaxFiles - 1)} \cup {psd_plot(i) : i \in 0..(MaxFiles - 1)}
        \cup {average_plot(t) : t \in 0..MaxClock}

NoResponse ==
    [kind |-> "none", status |-> 0, body |-> "", files |-> <<>>, timescale |-> 0,
     filepaths |-> <<>>, results |-> <<>>, seen |-> <<>>, avg_plot |-> None,
     saved |-> {}, wrote |-> {}]

\* the named file parts clients upload: a.edf holds one of two recordings, b.edf a
\* recording or an undecodable file; a part without a file has the empty filename
FileParts ==
    {[filename |-> "a.edf", content |-> c] : c \in {"eegA", "eegB"}}
        \cup {[filename |-> "b.edf", content |-> c] : c \in {"eegA", "corrupt"}}

EmptyPart == [filename |-> "", content |-> NoFile]

SeqsUpTo(S, n) ==
    UNION {[1..k -> S] : k \in 0..n}

\* the place of a file name in a form
Rank(name) ==
    IF name = "a.edf" THEN 1 ELSE 2

\* the file lists of the upload requests: up to MaxFiles parts, the named ones with
\* distinct names in form order, and at most one part without a file
UploadBatches ==
    {f \in SeqsUpTo(FileParts \cup {EmptyPart}, MaxFiles) :
        /\ \A i, j \in 1..Len(f) : (i < j /\ f[i].filename # "" /\ f[j].filename # "")
                                      => Rank(f[i].filename) < Rank(f[j].filename)
        /\ Cardinality({i \in 1..Len(f) : f[i].filename = ""}) <= 1}

\* the path lists of the update requests: up to MaxFiles distinct paths in form order
PathLists ==
    {f \in SeqsUpTo({join(UPLOAD_FOLDER, n) : n \in FileNames}, MaxFiles) :
        \A i, j \in 1..Len(f) : i < j => Rank(basename(f[i])) < Rank(basename(f[j]))}

\* the values of the form field timescale
TimescaleForms == {"absent", "2", "abc"}

\* float(request.form.get("timescale", 1.0)); 0 stands for the ValueError
float_timescale(v) ==
    IF v = "absent" THEN DefaultTimescale ELSE IF v = "2" THEN 2 ELSE 0

Init ==
    /\ uploads = [n \in FileNames |-> NoFile]
    /\ static = [n \in ImageNames |-> NoPlot]
    /\ clock = 0
    /\ req = [c \in Clients |-> NoResponse]
    /\ received = 0
    /\ returned = {}
    /\ band = BandIdle
    /\ agg = AggIdle

\* the wall clock advances
Tick ==
    /\ clock < MaxClock
    /\ clock' = clock + 1
    /\ UNCHANGED <<uploads, static, req, received, returned, band, agg>>

\* GET /
index(c) ==
    /\ received < MaxRequests
    /\ received' = received + 1
    /\ req' = [req EXCEPT ![c] = [NoResponse EXCEPT !.kind = "index",
                                                    !.status = 200, !.body = "index.html"]]
    /\ UNCHANGED <<uploads, static, clock, returned, band, agg>>

\* the check without its second half: only an empty list counts
no_files_selected_empty_list(files) ==
    files = <<>>

\* if not files or files[0].filename == ""
no_files_selected(files) ==
    files = <<>> \/ files[1].filename = ""

\* a save that empties the uploads directory before it stores the file
file_save_fresh(disk, name, content) ==
    [n \in DOMAIN disk |-> IF n = name THEN content ELSE NoFile]

\* file.save(path): the uploads directory with the content stored under the name
file_save(disk, name, content) ==
    [disk EXCEPT ![name] = content]

\* the handler's locals and the two directories when a loop starts
LoopStart(client, timescale, filepaths, disk, stat) ==
    [error |-> "", client |-> client, timescale |-> timescale, uploads |-> disk,
     static |-> stat, filepaths |-> filepaths, results |-> <<>>, seen |-> <<>>,
     saved |-> {}, wrote |-> {}, avg_plot |-> None]

RECURSIVE upload_loop_rollback(_, _, _)
\* the loop with a rollback: at an error it removes the files the request saved
\* and the images it wrote
upload_loop_rollback(files, idx, st) ==
    IF idx = Len(files) THEN st
    ELSE
      LET file == files[idx + 1]
          path == join(UPLOAD_FOLDER, file.filename)
          disk == file_save(st.uploads, file.filename, file.content)
          pf   == process_file(path, st.timescale, idx, st.client, disk, st.static)
          undo == [st EXCEPT !.uploads = [n \in DOMAIN st.uploads |->
                                            IF n \in st.saved \cup {file.filename}
                                            THEN NoFile ELSE st.uploads[n]],
                             !.static = [n \in DOMAIN st.static |->
                                            IF n \in st.wrote THEN NoPlot ELSE st.static[n]]]
      IN  IF file.filename = "" THEN [undo EXCEPT !.error = "IsADirectoryError"]
          ELSE IF pf.error # ""
          THEN [undo EXCEPT !.error = pf.error,
                            !.filepaths = Append(st.filepaths, path),
                            !.seen = Append(st.seen, pf.seen),
                            !.saved = st.saved \cup {file.filename}]
          ELSE upload_loop_rollback(files, idx + 1,
                 [st EXCEPT !.uploads = disk,
                            !.static = pf.static,
                            !.filepaths = Append(st.filepaths, path),
                            !.results = Append(st.results, pf.summary),
                            !.seen = Append(st.seen, pf.seen),
                            !.saved = st.saved \cup {file.filename},
                            !.wrote = st.wrote \cup {time_plot(idx), psd_plot(idx)}])

RECURSIVE upload_loop(_, _, _)
\* for idx, file in enumerate(files): save the file, then run the per-file pipeline.
\* The loop ends at the first error: saving under the empty filename opens the
\* directory itself and raises, and an undecodable file makes process_file raise.
upload_loop(files, idx, st) ==
    IF idx = Len(files) THEN st
    ELSE
      LET file == files[idx + 1]
          path == join(UPLOAD_FOLDER, file.filename)
          disk == file_save(st.uploads, file.filename, file.content)
          pf   == process_file(path, st.timescale, idx, st.client, disk, st.static)
      IN  IF file.filename = "" THEN [st EXCEPT !.error = "IsADirectoryError"]
          ELSE IF pf.error # ""
          THEN [st EXCEPT !.error = pf.error,
                          !.uploads = disk,
                          !.filepaths = Append(st.filepaths, path),
                          !.seen = Append(st.seen, pf.seen),
                          !.saved = st.saved \cup {file.filename}]
          ELSE upload_loop(files, idx + 1,
                 [st EXCEPT !.uploads = disk,
                            !.static = pf.static,
                            !.filepaths = Append(st.filepaths, path),
                            !.results = Append(st.results, pf.summary),
                            !.seen = Append(st.seen, pf.seen),
                            !.saved = st.saved \cup {file.filename},
                            !.wrote = st.wrote \cup {time_plot(idx), psd_plot(idx)}])

RECURSIVE update_loop(_, _)
\* [process_file(fp, timescale, idx) for idx, fp in enumerate(filepaths)]
update_loop(idx, st) ==
    IF idx = Len(st.filepaths) THEN st
    ELSE
      LET pf == process_file(st.filepaths[idx + 1], st.timescale, idx, st.client,
                             st.uploads, st.static)
      IN  IF pf.error # ""
          THEN [st EXCEPT !.error = pf.error, !.seen = Append(st.seen, pf.seen)]
          ELSE update_loop(idx + 1,
                 [st EXCEPT !.static = pf.static,
                            !.results = Append(st.results, pf.summary),
                            !.seen = Append(st.seen, pf.seen),
                            !.wrote = st.wrote \cup {time_plot(idx), psd_plot(idx)}])

\* the condition of: process_average(filepaths, timescale) if len(filepaths) > 1 else None
wants_average_always(filepaths) ==
    Len(filepaths) >= 1

wants_average(filepaths) ==
    Len(filepaths) > 1

\* the end of upload and of update: nothing more when the loop raised; else the
\* aggregate pipeline when the batch has more than one path, then the results page
finish(st, now) ==
    LET pa == process_average(st.filepaths, st.timescale, st.client, st.uploads, st.static, now)
    IN  IF st.error # "" \/ ~wants_average(st.filepaths) THEN st
        ELSE IF pa.error # "" THEN [st EXCEPT !.error = pa.error]
        ELSE [st EXCEPT !.static = pa.static,
                        !.wrote = st.wrote \cup {pa.avg_filename},
                        !.avg_plot = pa.avg_filename]

\* what the client is sent: the results page with what the handler passed to the
\* template, or the server's 500 page when the handler raised
Response(kind, files, st) ==
    [kind |-> kind,
     status |-> IF st.error = "" THEN 200 ELSE 500,
     body |-> IF st.error = "" THEN "result.html" ELSE "Internal Server Error",
     files |-> files, timescale |-> st.timescale, filepaths |-> st.filepaths,
     results |-> st.results, seen |-> st.seen, avg_plot |-> st.avg_plot,
     saved |-> st.saved, wrote |-> st.wrote]

\* the handler of POST /upload run for a client on the two directories at second
\* now: the response and the directories it leaves
upload_handler(client, files, disk, stat, now) ==
    IF no_files_selected(files)
    THEN [response |-> [NoResponse EXCEPT !.kind = "upload", !.status = 200,
                                          !.body = "No files selected", !.files = files],
          uploads |-> disk, static |-> stat]
    ELSE LET st == finish(upload_loop(files, 0,
                              LoopStart(client, DefaultTimescale, <<>>, disk, stat)), now)
         IN  [response |-> Response("upload", files, st),
              uploads |-> st.uploads, static |-> st.static]

\* the handler of POST /update
update_handler(client, form_timescale, filepaths, disk, stat, now) ==
    IF float_timescale(form_timescale) = 0
    THEN [response |-> [NoResponse EXCEPT !.kind = "update", !.status = 500,
                                          !.body = "Internal Server Error"],
          uploads |-> disk, static |-> stat]
    ELSE LET st == finish(update_loop(0,
                              LoopStart(client, float_timescale(form_timescale), filepaths,
                                        disk, stat)), now)
         IN  [response |-> Response("update", <<>>, st),
              uploads |-> st.uploads, static |-> st.static]

\* the paths a rendered upload page hands to its client (the hidden form fields)
Handed(response) ==
    IF response.kind = "upload" /\ response.body = "result.html"
    THEN {response.filepaths[k] : k \in 1..Len(response.filepaths)}
    ELSE {}

\* POST /upload
upload(c, files) ==
    /\ received < MaxRequests
    /\ received' = received + 1
    /\ \E out \in {upload_handler(c, files, uploads, static, clock)} :
        /\ req' = [req EXCEPT ![c] = out.response]
        /\ uploads' = out.uploads
        /\ static' = out.static
        /\ returned' = returned \cup Handed(out.response)
        /\ UNCHANGED <<clock, band, agg>>

\* POST /update
update(c, form_timescale, filepaths) ==
    /\ received < MaxRequests
    /\ received' = received + 1
    /\ \E out \in {update_handler(c, form_timescale, filepaths, uploads, static, clock)} :
        /\ req' = [req EXCEPT ![c] = out.response]
        /\ uploads' = out.uploads
        /\ static' = out.static
        /\ UNCHANGED <<clock, returned, band, agg>>

Next ==
    \/ Tick
    \/ \E c \in Clients : index(c)
    \/ \E c \in Clients : \E files \in UploadBatches : upload(c, files)
    \/ \E c \in Clients : \E t \in TimescaleForms :
          \E filepaths \in PathLists : update(c, t, filepaths)

Spec == Init /\ [][Next]_vars

(***************************************************************************)
(* The band power integrator on its own: the inputs are drawn from all     *)
(* PSD/frequency pairs of equal length with strictly ascending             *)
(* frequencies, and the one operation applies band_power to them.          *)
(***************************************************************************)
Freqs == 0..MaxFreq
PsdValues == {2 * k : k \in (-1)..MaxPsd}

Ascending(f) ==
    \A i \in 1..(Len(f) - 1) : f[i] < f[i + 1]

(***************************************************************************)
(* The averaging step on its own: the batch is drawn from all sequences of *)
(* one to MaxBatch recordings of 2, 6 or 7 channels and 1..MaxSamples      *)
(* samples, and the one operation decodes, scales and averages them.       *)
(***************************************************************************)
BatchRecordings ==
    {Recording(n, len, seed, 1) : n \in {2, 6, 7}, len \in 1..MaxSamples, seed \in 0..1}

WebIdle ==
    /\ uploads = <<>>
    /\ static = <<>>
    /\ clock = 0
    /\ req = <<>>
    /\ received = 0
    /\ returned = {}

InitBand ==
    /\ WebIdle
    /\ agg = AggIdle
    /\ \E n \in 0..MaxBins :
          \E p \in [1..n -> PsdValues], f \in [1..n -> Freqs], lo \in Freqs, hi \in Freqs :
              /\ Ascending(f)
              /\ band = [psd |-> p, freqs |-> f, fmin |-> lo, fmax |-> hi,
                         pc |-> "ready", power |-> 0]

RunBandPower ==
    /\ band.pc = "ready"
    /\ band' = [band EXCEPT !.pc = "done",
                            !.power = band_power(band.psd, band.freqs, band.fmin, band.fmax)]
    /\ UNCHANGED <<uploads, static, clock, req, received, returned, agg>>

NextBand == RunBandPower

SpecBand == InitBand /\ [][NextBand]_vars

InitAgg ==
    /\ WebIdle
    /\ band = BandIdle
    /\ \E n \in 1..MaxBatch :
          \E b \in [1..n -> BatchRecordings] :
              agg = [batch |-> b, pc |-> "ready", out |-> [error |-> "", data |-> <<>>]]

RunAverage ==
    /\ agg.pc = "ready"
    /\ agg' = [agg EXCEPT !.pc = "done",
                          !.out = average([k \in 1..Len(agg.batch) |-> get_data(agg.batch[k])])]
    /\ UNCHANGED <<uploads, static, clock, req, received, returned, band>>

NextAgg == RunAverage

SpecAgg == InitAgg /\ [][NextAgg]_vars

(***************************************************************************)
(* Properties of the request handlers (checked under Spec).                *)
(***************************************************************************)
Rendered(r) ==
    r.kind \in {"upload", "update"} /\ r.body = "result.html"

Failed(r) ==
    r.kind \in {"upload", "update"} /\ r.status = 500

IsAverageName(n) ==
    n # None /\ n[1] = "average_"

\* what the claim C1 promises of a response: the plain text and nothing else
OnlyNoFilesSelected(r) ==
    /\ r.status = 200 /\ r.body = "No files selected"
    /\ r.results = <<>> /\ r.filepaths = <<>> /\ r.avg_plot = None
    /\ r.saved = {} /\ r.wrote = {}

\* C1 as stated: an upload whose file list is empty or carries an empty filename
\* ANYWHERE in it is answered "No files selected" and does nothing else.  The code
\* looks at the first file only.
C1_AnyEmptyFilename ==
    \A c \in Clients :
        (/\ req[c].kind = "upload"
         /\ \/ req[c].files = <<>>
            \/ \E i \in 1..Len(req[c].files) : req[c].files[i].filename = "")
        => OnlyNoFilesSelected(req[c])

\* C1 amended: an upload whose file list is empty or whose FIRST file has an empty
\* filename is answered with the plain text "No files selected" (status 200), and
\* the request changes neither the uploads nor the static directory, runs no
\* pipeline and renders no results page.
C1_FirstEmptyFilename ==
    [][\A c \in Clients :
          (/\ req'[c] # req[c]
           /\ req'[c].kind = "upload"
           /\ (req'[c].files = <<>> \/ req'[c].files[1].filename = ""))
          => (/\ OnlyNoFilesSelected(req'[c])
              /\ uploads' = uploads
              /\ static' = static)]_vars

\* C1 witness: after a real upload has stored a file, a client sent an empty part
\* followed by a named file and got the plain text
C1_Witness ==
    \E c \in Clients :
        /\ req[c].kind = "upload" /\ Len(req[c].files) = 2
        /\ req[c].files[1].filename = "" /\ req[c].files[2].filename = "b.edf"
        /\ req[c].body = "No files selected"
        /\ uploads["a.edf"] # NoFile /\ uploads["b.edf"] = NoFile

\* C2: every completed /upload and /update ran the aggregate pipeline exactly when
\* its batch has more than one file path: then the page names the average image the
\* request wrote; with one path (or none) no average image is written and the
\* page's aggregate plot reference is None.
C2_AverageIffSeveralFiles ==
    \A c \in Clients :
        Rendered(req[c]) =>
            /\ (Len(req[c].filepaths) > 1) <=> (req[c].avg_plot # None)
            /\ req[c].avg_plot # None =>
                  (IsAverageName(req[c].avg_plot) /\ req[c].avg_plot \in req[c].wrote)
            /\ Len(req[c].filepaths) <= 1 =>
                  \A n \in req[c].wrote : ~IsAverageName(n)

\* C2 witness: a completed upload of one file without average next to a completed
\* update of two paths with one
C2_Witness ==
    \E c, d \in Clients :
        /\ Rendered(req[c]) /\ req[c].kind = "upload"
        /\ Len(req[c].filepaths) = 1 /\ req[c].avg_plot = None
        /\ Rendered(req[d]) /\ req[d].kind = "update"
        /\ Len(req[d].filepaths) = 2 /\ IsAverageName(req[d].avg_plot)

\* C3 as stated: two completed updates with the same timescale and the same
\* filepaths have identical per-file summaries, whatever requests came in between.
C3_AfterAnyRequests ==
    \A c, d \in Clients :
        (/\ Rendered(req[c]) /\ req[c].kind = "update"
         /\ Rendered(req[d]) /\ req[d].kind = "update"
         /\ req[c].timescale = req[d].timescale
         /\ req[c].filepaths = req[d].filepaths)
        => req[c].results = req[d].results

\* C3 amended: two completed updates with the same filepaths have identical
\* per-file summaries (filename, channels, sfreq, duration, image names and band
\* powers) whenever every path held the same stored content at both requests, and
\* this whatever their two display limits; an upload in between that stores another
\* recording under one of the names changes the summaries.
C3_SameStoredContent ==
    \A c, d \in Clients :
        (/\ Rendered(req[c]) /\ req[c].kind = "update"
         /\ Rendered(req[d]) /\ req[d].kind = "update"
         /\ req[c].filepaths = req[d].filepaths
         /\ req[c].seen = req[d].seen)
        => req[c].results = req[d].results

\* C3 witness: two clients updated the same two stored files with different
\* display limits
C3_Witness ==
    \E c, d \in Clients :
        /\ Rendered(req[c]) /\ req[c].kind = "update"
        /\ Rendered(req[d]) /\ req[d].kind = "update"
        /\ req[c].timescale # req[d].timescale
        /\ req[c].filepaths = req[d].filepaths /\ Len(req[c].filepaths) = 2
        /\ req[c].seen = req[d].seen
        /\ req[c].results = req[d].results

\* C4: no request deletes a stored file: a name that holds a file in the uploads
\* directory holds one after every step, so the set of stored paths only grows.
C4_StoredFilesStay ==
    [][\A n \in FileNames : uploads[n] # NoFile => uploads'[n] # NoFile]_vars

\* C4 witness: both files are stored, one was overwritten by a later upload, and
\* the last requests were a failed one and an update
C4_Witness ==
    /\ uploads["a.edf"] = "eegB" /\ uploads["b.edf"] = "corrupt"
    /\ received = MaxRequests
    /\ \E c, d \in Clients : Failed(req[c]) /\ Rendered(req[d]) /\ req[d].kind = "update"

\* C5: a batch with a file that cannot be decoded gets no results page: the request
\* fails with the server's error page, also for the files that decoded, and each
\* file is tried once.  What the failed request saved to the uploads directory and
\* the images it wrote for the earlier files stay in place.
C5_FailureWithoutRollback ==
    \A c \in Clients :
        /\ Rendered(req[c]) =>
              /\ Len(req[c].seen) = Len(req[c].filepaths)
              /\ \A k \in 1..Len(req[c].seen) : Decodable(req[c].seen[k])
        /\ (req[c].kind \in {"upload", "update"}
              /\ \E k \in 1..Len(req[c].seen) : ~Decodable(req[c].seen[k])) =>
              /\ Failed(req[c])
              /\ req[c].body = "Internal Server Error" /\ req[c].avg_plot = None
              /\ Len(req[c].seen) = Len(req[c].results) + 1
              /\ \A n \in req[c].saved : uploads[n] # NoFile
              /\ \A n \in req[c].wrote : static[n] # NoPlot

\* C5 witness: an upload whose second file is undecodable failed after its first
\* file was saved and plotted; both files and the first file's images are there
C5_Witness ==
    \E c \in Clients :
        /\ Failed(req[c]) /\ req[c].kind = "upload"
        /\ req[c].seen = <<"eegA", "corrupt">>
        /\ Len(req[c].results) = 1
        /\ req[c].saved = {"a.edf", "b.edf"}
        /\ uploads["a.edf"] = "eegA" /\ uploads["b.edf"] = "corrupt"
        /\ req[c].wrote = {time_plot(0), psd_plot(0)}
        /\ static[time_plot(0)].by = c /\ static[psd_plot(0)].by = c

\* C6: the per-file image names depend on the file's index inside its request
\* only: the i-th summary of every results page names time_<i-1>.png and
\* psd_<i-1>.png, whoever asked.  (The witness is the overwrite this allows.)
C6_NamesFromIndexOnly ==
    \A c \in Clients :
        \A i \in 1..Len(req[c].results) :
            /\ req[c].results[i].time_plot = <<"time_", i - 1, ".png">>
            /\ req[c].results[i].psd_plot = <<"psd_", i - 1, ".png">>

\* C6 witness: the image a client's results page names for index i holds the plot
\* that another client's request wrote for its own file of index i
C6_Witness ==
    \E c, d \in Clients : \E i \in 1..MaxFiles :
        /\ c # d
        /\ Rendered(req[c]) /\ Rendered(req[d])
        /\ i <= Len(req[c].results) /\ i <= Len(req[d].results)
        /\ req[c].results[i].filename # req[d].results[i].filename
        /\ static[req[c].results[i].time_plot].by = d
        /\ static[req[c].results[i].time_plot].title = req[d].results[i].filename

\* C7 as stated: any two runs of the aggregate pipeline write different
\* average_<unixtime>.png files.  Two runs within one second of the wall clock get
\* the same name, and the second overwrites the first.
C7_DistinctAverageFiles ==
    \A c, d \in Clients :
        (c # d /\ req[c].avg_plot # None /\ req[d].avg_plot # None)
        => req[c].avg_plot # req[d].avg_plot

\* C8 as stated: every path a /update decoded and processed was stored by an
\* earlier /upload and handed to a client in a results page, and /update saves
\* nothing.  The handler takes the paths of the form as they come.
C8_OnlyReturnedPaths ==
    \A c \in Clients :
        req[c].kind = "update" =>
            /\ req[c].saved = {}
            /\ \A k \in 1..Len(req[c].results) : req[c].filepaths[k] \in returned

(***************************************************************************)
(* Properties of the averaging step (checked under SpecAgg).               *)
(***************************************************************************)
ShortestLength(batch) ==
    MinOf({Len(batch[k].data[1]) : k \in 1..Len(batch)})

PlottedChannels(raw) ==
    IF Len(raw.ch_names) < MaxPlotChannels THEN Len(raw.ch_names) ELSE MaxPlotChannels

\* the averaged matrix is the element-wise mean of the batch cut to its shortest
\* recording: sum / count at every channel and position
IsTruncatedMean(out, batch) ==
    /\ out.error = ""
    /\ Len(out.data) = PlottedChannels(batch[1])
    /\ \A c \in 1..Len(out.data) :
          /\ Len(out.data[c]) = ShortestLength(batch)
          /\ \A t \in 1..Len(out.data[c]) :
                /\ out.data[c][t][2] = Len(batch)
                /\ out.data[c][t][1] =
                      SumSeq([k \in 1..Len(batch) |-> batch[k].data[c][t] * MicroVolts])

\* C9 as stated: for EVERY batch of two or more recordings the averaged matrix has
\* as many samples as the shortest input and holds the element-wise means.  A
\* batch whose recordings differ in their number of plotted channels has no
\* averaged matrix: np.mean raises.
C9_EveryBatchAveraged ==
    (agg.pc = "done" /\ Len(agg.batch) >= 2) => IsTruncatedMean(agg.out, agg.batch)

\* the same for the batches whose recordings have the same number of plotted
\* channels, where the code does what C9 says
AverageOfEqualChannels ==
    (/\ agg.pc = "done" /\ Len(agg.batch) >= 2
     /\ \A k \in 1..Len(agg.batch) :
           PlottedChannels(agg.batch[k]) = PlottedChannels(agg.batch[1]))
    => IsTruncatedMean(agg.out, agg.batch)

AverageOfEqualChannelsWitness ==
    /\ agg.pc = "done" /\ Len(agg.batch) >= 2
    /\ Len(agg.batch[1].ch_names) = 7 /\ Len(agg.batch[2].ch_names) = 6
    /\ Len(agg.batch[1].data[1]) > Len(agg.batch[2].data[1])
    /\ agg.out.error = ""

(***************************************************************************)
(* Properties of the band power integrator (checked under SpecBand).       *)
(***************************************************************************)
InBand(i) ==
    band.freqs[i] >= band.fmin /\ band.freqs[i] <= band.fmax

\* twice the area of the trapezoids between neighbouring bins that both lie in
\* the closed interval [fmin, fmax]
TwiceAreaInBand ==
    SumSeq([i \in 1..(IF Len(band.freqs) = 0 THEN 0 ELSE Len(band.freqs) - 1) |->
              IF InBand(i) /\ InBand(i + 1)
              THEN (band.freqs[i + 1] - band.freqs[i]) * (band.psd[i] + band.psd[i + 1])
              ELSE 0])

\* C10: on PSD/frequency arrays of equal length with ascending frequencies,
\* band_power is the trapezoidal integral over the bins with fmin <= f <= fmax
\* and no others, it is not negative when no PSD value is, and it is exactly 0
\* when no bin lies in the interval.
C10_BandPower ==
    band.pc = "done" =>
        /\ 2 * band.power = TwiceAreaInBand
        /\ (\A i \in 1..Len(band.psd) : band.psd[i] >= 0) => band.power >= 0
        /\ (\A i \in 1..Len(band.freqs) : ~InBand(i)) => band.power = 0

\* C10 witness: three bins, the first below the interval, the last exactly on its
\* upper edge, and a positive integral over the two bins inside
C10_Witness ==
    /\ band.pc = "done" /\ Len(band.freqs) = 3
    /\ ~InBand(1) /\ InBand(2) /\ band.freqs[3] = band.fmax
    /\ band.power > 0

====
